---- MODULE Spec2Model ----
(***************************************************************************)
(* The reactive metadata synchronisation engine of meta-bind:              *)
(* MetadataManager (src/unnamed/part_001, lines 21-197).  One cache entry  *)
(* per document, listeners keyed by property path, a periodic tick that    *)
(* writes changed entries back to the frontmatter of the document, and a   *)
(* handler for the host's "frontmatter changed" event.                     *)
(***************************************************************************)
EXTENDS Integers, Sequences, FiniteSets, Bags, TLC

----------------------------------------------------------------------------
(* Bounds of the exploration *)

\* update() is not taken once an entry has counted this many cycles
MaxCycles == 6

\* the same, in the runs that do not explore the suppression window
FewCycles == 1

\* update() is not taken when it would leave more write-backs in flight than this
MaxJobs == 2

\* the count of local writes since the last tick is kept up to this
MaxBurst == 3

----------------------------------------------------------------------------
(* Program constants and input sets *)

\* updateCycleThreshold = 5
updateCycleThreshold == 5

Files == {"f1", "f2"}
Uuids == {"u1", "u2", "u3"}
NoUuid == "none"
Values == {1, 2}
Paths == {<<"a">>, <<"a", "b">>, <<"a", "c">>}
\* "no metadataPath argument" of notifyListeners; every real path is non-empty
NoPath == <<>>
NoFile == "none"

----------------------------------------------------------------------------
(* Structured values.  A scalar n is [scalar |-> n], JavaScript's undefined *)
(* is [undef |-> TRUE], an object is a function from its own keys (strings) *)
(* to values.                                                              *)

Undefined == [undef |-> TRUE]
Scalar(n) == [scalar |-> n]
EmptyObj == [k \in {} |-> Undefined]
IsObject(o) == o # Undefined /\ "scalar" \notin DOMAIN o

\* o[k] of JavaScript on a defined value: undefined for a key that is absent
\* and for any key of a primitive.
Get(o, k) == IF IsObject(o) /\ k \in DOMAIN o THEN o[k] ELSE Undefined

\* parent[key] = value on an object
SetKey(o, k, v) == [x \in DOMAIN o \cup {k} |-> IF x = k THEN v ELSE o[x]]

\* delete o[k]
DeleteKey(o, k) == [x \in DOMAIN o \ {k} |-> o[x]]

\* Object.assign(target, source): own keys of source overwrite, one level deep
ObjectAssign(target, source) ==
    [x \in DOMAIN target \cup DOMAIN source |->
        IF x \in DOMAIN source THEN source[x] ELSE target[x]]

RECURSIVE traverseObjectByPath(_, _)
\* the value at pathParts in o, undefined when a step is absent
traverseObjectByPath(pathParts, o) ==
    IF pathParts = <<>> THEN o
    ELSE IF o = Undefined THEN Undefined
    ELSE traverseObjectByPath(Tail(pathParts), Get(o, Head(pathParts)))

\* {parent: {key, value}, child: {key, value}}; the parent chain is not created
traverseObjectToParentByPath(pathParts, o) ==
    LET parentPath == SubSeq(pathParts, 1, Len(pathParts) - 1)
        childKey == pathParts[Len(pathParts)]
        parentObject == traverseObjectByPath(parentPath, o)
    IN [parent |-> [key |-> parentPath, value |-> parentObject],
        child |-> [key |-> childKey, value |-> Get(parentObject, childKey)]]

\* structural, order-sensitive equality of two paths
arrayEquals(a, b) ==
    Len(a) = Len(b) /\ \A i \in 1..Len(a) : a[i] = b[i]

\* the assignment lost
AssignAtPath_Lost(o, pathParts, value) == o

RECURSIVE AssignAtPath(_, _, _)
\* the metadata after parent.value[child.key] = value, parent being the object
\* at the path without its last step (an alias into metadata)
AssignAtPath(o, pathParts, value) ==
    IF Len(pathParts) = 1 THEN SetKey(o, pathParts[1], value)
    ELSE SetKey(o, Head(pathParts),
                AssignAtPath(o[Head(pathParts)], Tail(pathParts), value))

----------------------------------------------------------------------------
(* The values the documents hold in this exploration *)

SubObjects == UNION {[D -> {Scalar(v) : v \in Values}] : D \in SUBSET {"b", "c"}}
AValues == {Undefined} \cup {Scalar(v) : v \in Values} \cup SubObjects
SValues == {Undefined, Scalar(1)}
TreeOf(a, s) ==
    [k \in (IF a = Undefined THEN {} ELSE {"a"}) \cup (IF s = Undefined THEN {} ELSE {"s"}) |->
        IF k = "a" THEN a ELSE s]
Trees == {TreeOf(a, s) : a \in AValues, s \in SValues}

\* a field of a note: the subscriber id it registers and the path it binds
Field(uuid, path) == [uuid |-> uuid, path |-> path]

\* The environment of a run: the documents, the fields that register, the
\* paths and values the callers write, the frontmatter the documents start with
\* and receive from outside, what the host's processFrontMatter may do, and the
\* bounds.  overlap: whether update() is taken while a write-back is in flight.
\* tracks: the history this run keeps.
CacheEnv ==
    [name |-> "cache",
     docs |-> {"f1"},
     uuids |-> {"u1", "u2"},
     fields |-> {Field("u1", <<"a", "b">>), Field("u1", <<"a">>),
                 Field("u2", <<"a", "b">>), Field("u2", <<"a", "c">>)},
     paths |-> Paths,
     values |-> Values,
     initial |-> TreeOf([b |-> Scalar(1)], Undefined),
     external |-> {},
     updates |-> {EmptyObj},
     results |-> {"callback", "rejected"},
     reads |-> {"ok"},
     maxCycles |-> FewCycles,
     overlap |-> FALSE,
     tracks |-> {}]

TimingEnv ==
    [name |-> "timing",
     docs |-> {"f1"},
     uuids |-> {"u1", "u2"},
     fields |-> {Field("u1", <<"a">>), Field("u2", <<"s">>)},
     paths |-> {<<"a">>},
     values |-> Values,
     initial |-> TreeOf(Scalar(1), Undefined),
     external |-> {TreeOf(Scalar(1), Scalar(1)), TreeOf(Scalar(2), Undefined)},
     updates |-> {EmptyObj},
     results |-> {"callback", "rejected"},
     reads |-> {"ok"},
     maxCycles |-> MaxCycles,
     overlap |-> FALSE,
     tracks |-> {"sinceWrite", "lastWrite"}]

WriteBackEnv ==
    [name |-> "writeback",
     docs |-> {"f1"},
     uuids |-> {"u1", "u2"},
     fields |-> {Field("u1", <<"a">>)},
     paths |-> {<<"a">>},
     values |-> Values,
     initial |-> TreeOf(Scalar(1), Undefined),
     external |-> {TreeOf(Scalar(1), Scalar(1))},
     updates |-> {EmptyObj},
     results |-> {"callback", "written", "rejected"},
     reads |-> {"ok"},
     maxCycles |-> FewCycles,
     overlap |-> TRUE,
     tracks |-> {"burst", "pending"}]

\* two documents, and a store whose reads and writes may fail
DocsEnv ==
    [name |-> "docs",
     docs |-> {"f1", "f2"},
     uuids |-> {"u1", "u2"},
     fields |-> {Field("u1", <<"a">>), Field("u2", <<"a">>)},
     paths |-> {<<"a">>},
     values |-> {2},
     initial |-> TreeOf(Scalar(1), Undefined),
     external |-> {},
     updates |-> {EmptyObj},
     results |-> {"rejected"},
     reads |-> {"ok", "fails"},
     maxCycles |-> MaxCycles,
     overlap |-> FALSE,
     tracks |-> {}]

\* fields that come and go on one document
SubscriptionEnv ==
    [name |-> "subscription",
     docs |-> {"f1"},
     uuids |-> {"u1", "u2"},
     fields |-> {Field("u1", <<"a">>), Field("u2", <<"a">>)},
     paths |-> {<<"a">>},
     values |-> {2},
     initial |-> TreeOf(Scalar(1), Undefined),
     external |-> {TreeOf(Scalar(2), Undefined)},
     updates |-> {EmptyObj},
     results |-> {"callback", "rejected"},
     reads |-> {"ok"},
     maxCycles |-> MaxCycles,
     overlap |-> FALSE,
     tracks |-> {"unsubscribed", "sinceCreation"}]

\* three fields on nested paths of one document, and their signals
SignalEnv ==
    [name |-> "signal",
     docs |-> {"f1"},
     uuids |-> Uuids,
     fields |-> {Field("u1", <<"a", "b">>), Field("u2", <<"a", "c">>),
                 Field("u3", <<"a", "b">>)},
     paths |-> {<<"a", "b">>, <<"a">>},
     values |-> {2},
     initial |-> TreeOf([b |-> Scalar(1)], Undefined),
     external |-> {},
     updates |-> {TreeOf([b |-> Scalar(2), c |-> Scalar(1)], Undefined)},
     results |-> {"rejected"},
     reads |-> {"ok"},
     maxCycles |-> MaxCycles,
     overlap |-> FALSE,
     tracks |-> {"signal"}]

\* one field that comes and goes while the store reads and writes
TeardownEnv ==
    [name |-> "teardown",
     docs |-> {"f1"},
     uuids |-> {"u1"},
     fields |-> {Field("u1", <<"a">>)},
     paths |-> {<<"a">>},
     values |-> Values,
     initial |-> TreeOf(Scalar(1), Undefined),
     external |-> {},
     updates |-> {EmptyObj},
     results |-> {"callback", "written", "rejected"},
     reads |-> {"ok"},
     maxCycles |-> FewCycles,
     overlap |-> FALSE,
     tracks |-> {}]

\* the same under a store whose writes succeed
FairEnv ==
    [TeardownEnv EXCEPT !.name = "fair", !.results = {"callback", "written"}]

----------------------------------------------------------------------------
VARIABLES
    env,         \* the environment of this run (fixed by Init)
    cache,       \* MetadataManager.cache: sequence of MetadataFileCache
    store,       \* frontmatter of each document in the external store
    jobs,        \* bag of processFrontMatter calls in flight
    sinceWrite,  \* history, per document: ticks since the last value-changing
                 \* local write, -1 if none
    lastWrite,   \* history, per document: path and value of the last local write
                 \* that returned, if the metadata was not replaced since
    burst,       \* history, per document: n, the value-changing local writes
                 \* of the current interval between ticks, or of the interval
                 \* the last tick closed when no write followed it (closed);
                 \* raced, one of them happened with a write-back in flight
    unsubscribed,\* history: the uuids unregistered from their document and not
                 \* registered since
    pending,     \* history, per document: a value-changing local write to the
                 \* entry happened since the entry was created and since a
                 \* write-back of the document last completed
    signal,      \* per subscriber: the value its signal was last set to
    sinceCreation, \* history, per document: ticks since its entry was created,
                 \* -1 without an entry or once a local write, a wholesale
                 \* update or an accepted external change reset the counter
    lastOp,      \* the operation that produced this state: its name, document and
                 \* path, the value it compared or assigned (of unregister: the
                 \* number of listeners it removed), the writer it passed
                 \* to notifyListeners, its outcome, the write-backs it started
    delivered    \* the signal.set calls of that operation, in order

vars == <<env, cache, store, jobs, sinceWrite, lastWrite, burst, unsubscribed,
          pending, signal, sinceCreation, lastOp, delivered>>

hist == <<sinceWrite, lastWrite, burst>>

NoWrite == [path |-> NoPath, value |-> 0]

RECURSIVE SumCounts(_, _)
SumCounts(B, S) ==
    IF S = {} THEN 0
    ELSE LET j == CHOOSE x \in S : TRUE IN B[j] + SumCounts(B, S \ {j})

RECURSIVE AddAll(_, _)
AddAll(B, s) ==
    IF s = <<>> THEN B ELSE AddAll(B (+) SetToBag({Head(s)}), Tail(s))

RemoveOne(B, j) == B (-) SetToBag({j})

Op(op, file, path, value, uuid, outcome, started) ==
    [op |-> op, file |-> file, path |-> path, value |-> value, uuid |-> uuid,
     outcome |-> outcome, started |-> started]

\* the lookup returns the first entry, whatever its document
CacheIndex_First(file) == IF cache = <<>> THEN 0 ELSE 1

\* 0 when the document has no entry
CacheIndex(file) ==
    IF \E i \in 1..Len(cache) : cache[i].file = file
    THEN CHOOSE i \in 1..Len(cache) :
            /\ cache[i].file = file
            /\ \A j \in 1..(i - 1) : cache[j].file # file
    ELSE 0

\* the lookup finds no entry
HasCache_Never(file) == FALSE

HasCache(file) == CacheIndex(file) # 0

\* this.cache.find(x => x.file.path === file.path); used only when HasCache
getCacheForFile(file) == cache[CacheIndex(file)]

RegisteredUuids ==
    UNION {{cache[i].listeners[j].uuid : j \in 1..Len(cache[i].listeners)} :
              i \in 1..Len(cache)}

InitIn(e) ==
    /\ env = e
    /\ cache = <<>>
    /\ store = [f \in Files |-> e.initial]
    /\ jobs = EmptyBag
    /\ sinceWrite = [f \in Files |-> -1]
    /\ lastWrite = [f \in Files |-> NoWrite]
    /\ burst = [f \in Files |-> [n |-> 0, closed |-> FALSE, raced |-> FALSE]]
    /\ unsubscribed = {}
    /\ pending = [f \in Files |-> FALSE]
    /\ signal = [u \in Uuids |-> Undefined]
    /\ sinceCreation = [f \in Files |-> -1]
    /\ lastOp = Op("init", NoFile, NoPath, 0, NoUuid, "ok", <<>>)
    /\ delivered = <<>>

\* signal.set(value) of every notification of the step, in order
Signalled(sig, d) ==
    [u \in Uuids |->
        LET I == {i \in 1..Len(d) : d[i].uuid = u}
        IN IF I = {} THEN sig[u]
           ELSE d[CHOOSE i \in I : \A k \in I : k <= i].value]

\* the ticks since the creation of the entry of f, after the step
Aged(f) ==
    IF ~HasCache(f)' THEN -1
    ELSE IF ~HasCache(f) THEN 0
    ELSE IF lastOp'.op = "update"
    THEN IF sinceCreation[f] < 0 THEN -1
         ELSE IF sinceCreation[f] < env.maxCycles THEN sinceCreation[f] + 1
         ELSE env.maxCycles
    ELSE IF lastOp'.file = f /\ lastOp'.outcome \in {"written", "updated", "accepted"}
    THEN -1
    ELSE sinceCreation[f]

\* what every step records of the signals and of the age of the entries
Recorded ==
    /\ signal' = IF "signal" \in env.tracks THEN Signalled(signal, delivered')
                  ELSE signal
    /\ sinceCreation' = IF "sinceCreation" \in env.tracks
                         THEN [f \in Files |-> Aged(f)]
                         ELSE sinceCreation

----------------------------------------------------------------------------
(* Helpers of the handlers *)

Listener(metadataPath, uuid) == [metadataPath |-> metadataPath, uuid |-> uuid]

\* the signal is set without the value
Delivery_Unseeded(uuid, value) == [uuid |-> uuid, value |-> Undefined]

Delivery(uuid, value) == [uuid |-> uuid, value |-> value]

\* Internal.getMetadataFromFileCache(file, plugin): the document's frontmatter
getMetadataFromFileCache(file) == store[file]

\* cache.frontmatter of the host's event: the frontmatter with its position
WithPosition(data) == SetKey(data, "position", Scalar(0))

\* the copy with `delete metadata.position` left out
CopyWithoutPosition_Kept(frontmatter) == ObjectAssign(EmptyObj, frontmatter)

\* const metadata = Object.assign({}, cache.frontmatter); delete metadata.position
CopyWithoutPosition(frontmatter) ==
    DeleteKey(ObjectAssign(EmptyObj, frontmatter), "position")

\* the comparison dropped: no event is held back
RecentlyChanged_Never(fileCache) == FALSE

\* the comparison one cycle short
RecentlyChanged_Short(fileCache) ==
    fileCache.cyclesSinceLastUserInput < updateCycleThreshold - 1

\* fileCache.cyclesSinceLastUserInput < this.updateCycleThreshold
RecentlyChanged(fileCache) ==
    fileCache.cyclesSinceLastUserInput < updateCycleThreshold

\* the writer is not skipped
Excepted_Never(listener, exceptUuid) == FALSE

\* if (exceptUuid && exceptUuid === listener.uuid) continue
Excepted(listener, exceptUuid) ==
    exceptUuid # NoUuid /\ exceptUuid = listener.uuid

\* notifyListeners without the arrayEquals test
notifyListeners_NoPathTest(fileCache, metadataPath, exceptUuid) ==
    LET value == IF metadataPath # NoPath
                 THEN traverseObjectByPath(metadataPath, fileCache.metadata)
                 ELSE Undefined
        called(l) == ~Excepted(l, exceptUuid)
        hit == SelectSeq(fileCache.listeners, called)
    IN [i \in 1..Len(hit) |->
            Delivery(hit[i].uuid,
                     IF metadataPath # NoPath THEN value
                     ELSE traverseObjectByPath(hit[i].metadataPath, fileCache.metadata))]

\* without a path every listener gets the value at the path of the first one
notifyListeners_FirstPath(fileCache, metadataPath, exceptUuid) ==
    LET value == IF metadataPath # NoPath
                 THEN traverseObjectByPath(metadataPath, fileCache.metadata)
                 ELSE Undefined
        called(l) == /\ ~Excepted(l, exceptUuid)
                     /\ metadataPath # NoPath => arrayEquals(metadataPath, l.metadataPath)
        hit == SelectSeq(fileCache.listeners, called)
    IN [i \in 1..Len(hit) |->
            Delivery(hit[i].uuid,
                     IF metadataPath # NoPath THEN value
                     ELSE traverseObjectByPath(fileCache.listeners[1].metadataPath,
                                               fileCache.metadata))]

\* the loop over the listeners ends after the first call
notifyListeners_FirstOnly(fileCache, metadataPath, exceptUuid) ==
    LET value == IF metadataPath # NoPath
                 THEN traverseObjectByPath(metadataPath, fileCache.metadata)
                 ELSE Undefined
        called(l) == /\ ~Excepted(l, exceptUuid)
                     /\ metadataPath # NoPath => arrayEquals(metadataPath, l.metadataPath)
        hit == SelectSeq(fileCache.listeners, called)
    IN [i \in 1..(IF hit = <<>> THEN 0 ELSE 1) |->
            Delivery(hit[i].uuid,
                     IF metadataPath # NoPath THEN value
                     ELSE traverseObjectByPath(hit[i].metadataPath, fileCache.metadata))]

\* the calls listener.callback(...) of notifyListeners, in order
notifyListeners(fileCache, metadataPath, exceptUuid) ==
    LET value == IF metadataPath # NoPath
                 THEN traverseObjectByPath(metadataPath, fileCache.metadata)
                 ELSE Undefined
        called(l) == /\ ~Excepted(l, exceptUuid)
                     /\ metadataPath # NoPath => arrayEquals(metadataPath, l.metadataPath)
        hit == SelectSeq(fileCache.listeners, called)
    IN [i \in 1..Len(hit) |->
            Delivery(hit[i].uuid,
                     IF metadataPath # NoPath THEN value
                     ELSE traverseObjectByPath(hit[i].metadataPath, fileCache.metadata))]

\* a processFrontMatter call in flight.  stage "read": the file is being read
\* and the callback has not run; stage "write": the callback has run and data is
\* the frontmatter being written.  live: the entry the callback closes over is
\* still in the cache; otherwise data is the metadata that entry was removed with.
Job(file, stage, live, data) ==
    [file |-> file, stage |-> stage, live |-> live, data |-> data]

\* a write-back of the entry of the document is in flight: its callback will
\* run on the entry, or has run
InFlight(file) ==
    \E j \in BagToSet(jobs) : j.file = file /\ (j.live \/ j.stage = "write")

\* updateFrontmatter(fileCache) up to its await
updateFrontmatter(fileCache) == Job(fileCache.file, "read", TRUE, EmptyObj)

\* entry.changed of the loop in update()
NeedsWriteBack(entry) == entry.changed

\* the callback of processFrontMatter sees the removed entry from now on
Detach(j, file, metadata) ==
    IF j.file = file /\ j.live /\ j.stage = "read"
    THEN Job(file, "read", FALSE, metadata)
    ELSE j

\* the calls in flight for the removed entry are cancelled
DetachAll_Cancels(B, file, metadata) ==
    LET T == {j \in BagToSet(B) : ~(j.file = file /\ j.live /\ j.stage = "read")}
    IN [t \in T |-> B[t]]

\* every call in flight for the removed entry is detached
DetachAll(B, file, metadata) ==
    LET T == {Detach(j, file, metadata) : j \in BagToSet(B)}
    IN [t \in T |->
            SumCounts(B, {j \in BagToSet(B) : Detach(j, file, metadata) = t})]

----------------------------------------------------------------------------
(* The operations *)

\* the entry is created with a counter at the threshold
NewEntry_Aged(file, metadataPath, uuid) ==
    [file |-> file,
     metadata |-> getMetadataFromFileCache(file),
     listeners |-> <<Listener(metadataPath, uuid)>>,
     cyclesSinceLastUserInput |-> updateCycleThreshold,
     changed |-> FALSE]

\* const c: MetadataFileCache = {...} of register
NewEntry(file, metadataPath, uuid) ==
    [file |-> file,
     metadata |-> getMetadataFromFileCache(file),
     listeners |-> <<Listener(metadataPath, uuid)>>,
     cyclesSinceLastUserInput |-> 0,
     changed |-> FALSE]

register(file, metadataPath, uuid) ==
    /\ uuid \notin RegisteredUuids
    /\ IF HasCache(file)
       THEN LET i == CacheIndex(file) IN
            /\ cache' = [cache EXCEPT ![i].listeners =
                            Append(@, Listener(metadataPath, uuid))]
            /\ delivered' = <<Delivery(uuid,
                                traverseObjectByPath(metadataPath, cache[i].metadata))>>
            /\ lastOp' = Op("register", file, metadataPath, 0, uuid, "existing", <<>>)
       ELSE LET c == NewEntry(file, metadataPath, uuid) IN
            /\ cache' = Append(cache, c)
            /\ delivered' = <<Delivery(uuid,
                                traverseObjectByPath(metadataPath, c.metadata))>>
            /\ lastOp' = Op("register", file, metadataPath, 0, uuid, "created", <<>>)
    /\ unsubscribed' = unsubscribed \ {uuid}
    /\ pending' = IF HasCache(file) THEN pending ELSE [pending EXCEPT ![file] = FALSE]
    /\ UNCHANGED <<env, store, jobs, hist>>
    /\ Recorded

\* the failed read leaves an entry without metadata behind
registerReadFails_KeepsEntry(file, metadataPath, uuid) ==
    /\ uuid \notin RegisteredUuids
    /\ ~HasCache(file)
    /\ cache' = Append(cache, [file |-> file,
                               metadata |-> EmptyObj,
                               listeners |-> <<Listener(metadataPath, uuid)>>,
                               cyclesSinceLastUserInput |-> 0,
                               changed |-> FALSE])
    /\ lastOp' = Op("register", file, metadataPath, 0, uuid, "readfailed", <<>>)
    /\ delivered' = <<>>
    /\ UNCHANGED <<env, store, jobs, hist, unsubscribed, pending>>
    /\ Recorded

\* register for a document without an entry when getMetadataFromFileCache
\* throws: the exception leaves register before this.cache.push(c)
registerReadFails(file, metadataPath, uuid) ==
    /\ uuid \notin RegisteredUuids
    /\ ~HasCache(file)
    /\ lastOp' = Op("register", file, metadataPath, 0, uuid, "readfailed", <<>>)
    /\ delivered' = <<>>
    /\ UNCHANGED <<env, cache, store, jobs, hist, unsubscribed, pending>>
    /\ Recorded

\* the listener is not removed
Remaining_All(listeners, uuid) == listeners

\* only the first of the other listeners stays
Remaining_First(listeners, uuid) ==
    LET others == SelectSeq(listeners, LAMBDA x : x.uuid # uuid)
    IN IF others = <<>> THEN others ELSE <<others[1]>>

\* fileCache.listeners.filter(x => x.uuid !== uuid)
Remaining(listeners, uuid) == SelectSeq(listeners, LAMBDA x : x.uuid # uuid)

\* an entry without listeners is kept
Unused_Never(listeners) == FALSE

\* the entry is deleted while it has listeners and kept without
Unused_Negated(listeners) == Len(listeners) # 0

\* fileCache.listeners.length === 0
Unused(listeners) == Len(listeners) = 0

unregister(file, uuid) ==
    /\ IF ~HasCache(file)
       THEN /\ UNCHANGED <<cache, jobs, lastWrite>>
            /\ lastOp' = Op("unregister", file, NoPath, 0, uuid, "nocache", <<>>)
       ELSE LET i == CacheIndex(file)
                kept == Remaining(cache[i].listeners, uuid)
            IN IF Unused(kept)
               THEN /\ cache' = SelectSeq(cache, LAMBDA x : x.file # file)
                    /\ jobs' = DetachAll(jobs, file, cache[i].metadata)
                    /\ lastWrite' = [lastWrite EXCEPT ![file] = NoWrite]
                    /\ lastOp' = Op("unregister", file, NoPath,
                                    Len(cache[i].listeners) - Len(kept), uuid,
                                    "deleted", <<>>)
               ELSE /\ cache' = [cache EXCEPT ![i].listeners = kept]
                    /\ UNCHANGED <<jobs, lastWrite>>
                    /\ lastOp' = Op("unregister", file, NoPath,
                                    Len(cache[i].listeners) - Len(kept), uuid,
                                    "kept", <<>>)
    /\ unsubscribed' =
          IF /\ "unsubscribed" \in env.tracks
             /\ HasCache(file)
             /\ \E i \in 1..Len(getCacheForFile(file).listeners) :
                   getCacheForFile(file).listeners[i].uuid = uuid
          THEN unsubscribed \cup {uuid}
          ELSE unsubscribed
    /\ pending' = IF HasCache(file) /\ ~HasCache(file)'
                  THEN [pending EXCEPT ![file] = FALSE]
                  ELSE pending
    /\ delivered' = <<>>
    /\ UNCHANGED <<env, store, sinceWrite, burst>>
    /\ Recorded

\* an entry written back in the tick is not counted
Counted_UnlessWritten(entry) ==
    IF entry.changed THEN entry
    ELSE [entry EXCEPT !.cyclesSinceLastUserInput = @ + 1]

\* entry.cyclesSinceLastUserInput += 1
Counted(entry) == [entry EXCEPT !.cyclesSinceLastUserInput = @ + 1]

\* the scheduler tick
update ==
    LET started == SelectSeq(cache, NeedsWriteBack) IN
    /\ \A i \in 1..Len(cache) : cache[i].cyclesSinceLastUserInput < env.maxCycles
    /\ BagCardinality(jobs) + Len(started) <= (IF env.overlap THEN MaxJobs ELSE 1)
    /\ jobs' = AddAll(jobs, [i \in 1..Len(started) |-> updateFrontmatter(started[i])])
    /\ cache' = [i \in 1..Len(cache) |-> Counted(cache[i])]
    /\ sinceWrite' = [f \in Files |->
                        IF sinceWrite[f] < 0 THEN -1
                        ELSE IF sinceWrite[f] < env.maxCycles THEN sinceWrite[f] + 1
                        ELSE env.maxCycles]
    /\ lastOp' = Op("update", NoFile, NoPath, 0, NoUuid, "ok",
                    [i \in 1..Len(started) |-> started[i].file])
    /\ burst' = IF "burst" \in env.tracks
                THEN [f \in Files |-> [burst[f] EXCEPT !.closed = TRUE]]
                ELSE burst
    /\ delivered' = <<>>
    /\ UNCHANGED <<env, store, lastWrite, unsubscribed, pending>>
    /\ Recorded

\* processFrontMatter has read the file and calls the callback of updateFrontmatter
FrontMatterCallback(j) ==
    /\ j \in BagToSet(jobs)
    /\ j.stage = "read"
    /\ LET metadata == IF j.live THEN getCacheForFile(j.file).metadata ELSE j.data
           frontMatter == ObjectAssign(store[j.file], metadata)
       IN jobs' = RemoveOne(jobs, j) (+) SetToBag({Job(j.file, "write", FALSE, frontMatter)})
    /\ cache' = IF j.live
                THEN [cache EXCEPT ![CacheIndex(j.file)].changed = FALSE]
                ELSE cache
    /\ lastOp' = Op("callback", j.file, NoPath, 0, NoUuid,
                    IF j.live THEN "live" ELSE "removed", <<>>)
    /\ delivered' = <<>>
    /\ UNCHANGED <<env, store, hist, unsubscribed, pending>>
    /\ Recorded

\* processFrontMatter has written the file
StoreWriteDone(j) ==
    /\ j \in BagToSet(jobs)
    /\ j.stage = "write"
    /\ store' = [store EXCEPT ![j.file] = j.data]
    /\ jobs' = RemoveOne(jobs, j)
    /\ lastOp' = Op("stored", j.file, NoPath, 0, NoUuid, "ok", <<>>)
    /\ delivered' = <<>>
    /\ pending' = [pending EXCEPT ![j.file] = FALSE]
    /\ UNCHANGED <<env, cache, hist, unsubscribed>>
    /\ Recorded

\* processFrontMatter rejects: the read failed (the callback never runs) or the
\* write failed (the callback has run)
StoreFails(j) ==
    /\ j \in BagToSet(jobs)
    /\ jobs' = RemoveOne(jobs, j)
    /\ lastOp' = Op("failed", j.file, NoPath, 0, NoUuid, j.stage, <<>>)
    /\ delivered' = <<>>
    /\ UNCHANGED <<env, cache, store, hist, unsubscribed, pending>>
    /\ Recorded

\* the wholesale update leaves the counter as it is
updateCache_NoReset(metadata, file, uuid) ==
    /\ IF ~HasCache(file)
       THEN /\ UNCHANGED <<cache, lastWrite>>
            /\ delivered' = <<>>
            /\ lastOp' = Op("updateCache", file, NoPath, 0, NoUuid, "nocache", <<>>)
       ELSE LET i == CacheIndex(file)
                fileCache == [cache[i] EXCEPT !.metadata = metadata]
            IN /\ cache' = [cache EXCEPT ![i] = fileCache]
               /\ delivered' = notifyListeners(fileCache, NoPath, uuid)
               /\ lastWrite' = [lastWrite EXCEPT ![file] = NoWrite]
               /\ lastOp' = Op("updateCache", file, NoPath, 0, uuid, "updated", <<>>)
    /\ UNCHANGED <<env, store, jobs, sinceWrite, burst, unsubscribed, pending>>
    /\ Recorded

\* a wholesale update for a document without an entry creates one, to be
\* written back
updateCache_Creates(metadata, file, uuid) ==
    /\ IF ~HasCache(file)
       THEN /\ cache' = Append(cache, [file |-> file,
                                       metadata |-> metadata,
                                       listeners |-> <<>>,
                                       cyclesSinceLastUserInput |-> 0,
                                       changed |-> TRUE])
            /\ UNCHANGED lastWrite
            /\ delivered' = <<>>
            /\ lastOp' = Op("updateCache", file, NoPath, 0, NoUuid, "nocache", <<>>)
       ELSE LET i == CacheIndex(file)
                fileCache == [cache[i] EXCEPT !.metadata = metadata,
                                              !.cyclesSinceLastUserInput = 0]
            IN /\ cache' = [cache EXCEPT ![i] = fileCache]
               /\ delivered' = notifyListeners(fileCache, NoPath, uuid)
               /\ lastWrite' = [lastWrite EXCEPT ![file] = NoWrite]
               /\ lastOp' = Op("updateCache", file, NoPath, 0, uuid, "updated", <<>>)
    /\ UNCHANGED <<env, store, jobs, sinceWrite, burst, unsubscribed, pending>>
    /\ Recorded

updateCache(metadata, file, uuid) ==
    /\ IF ~HasCache(file)
       THEN /\ UNCHANGED <<cache, lastWrite>>
            /\ delivered' = <<>>
            /\ lastOp' = Op("updateCache", file, NoPath, 0, NoUuid, "nocache", <<>>)
       ELSE LET i == CacheIndex(file)
                fileCache == [cache[i] EXCEPT !.metadata = metadata,
                                              !.cyclesSinceLastUserInput = 0]
            IN /\ cache' = [cache EXCEPT ![i] = fileCache]
               /\ delivered' = notifyListeners(fileCache, NoPath, uuid)
               /\ lastWrite' = [lastWrite EXCEPT ![file] = NoWrite]
               /\ lastOp' = Op("updateCache", file, NoPath, 0, uuid, "updated", <<>>)
    /\ UNCHANGED <<env, store, jobs, sinceWrite, burst, unsubscribed, pending>>
    /\ Recorded

\* the test for the parent left out
ParentMissing_Never(t) == FALSE

\* if (parent.value === undefined) throw Error(...)
ParentMissing(t) == t.parent.value = Undefined

\* the test for a redundant update left out
RedundantUpdate_Never(t, value) == FALSE

\* if (child.value === value) return
RedundantUpdate(t, value) == t.child.value = Scalar(value)

\* parent.value[child.key] = value throws a TypeError when parent.value is a
\* primitive (module code is strict)
AssignmentThrows(t) == ~IsObject(t.parent.value)

updatePropertyInCache(value, pathParts, file, uuid) ==
    /\ IF ~HasCache(file)
       THEN /\ UNCHANGED <<cache, hist>>
            /\ delivered' = <<>>
            /\ lastOp' = Op("write", file, pathParts, 0, NoUuid, "nocache", <<>>)
       ELSE LET i == CacheIndex(file)
                t == traverseObjectToParentByPath(pathParts, cache[i].metadata)
            IN IF ParentMissing(t)
               THEN /\ UNCHANGED <<cache, hist>>
                    /\ delivered' = <<>>
                    /\ lastOp' = Op("write", file, pathParts, 0, NoUuid, "error", <<>>)
               ELSE IF RedundantUpdate(t, value)
               THEN /\ UNCHANGED <<cache, sinceWrite, burst>>
                    /\ lastWrite' = IF "lastWrite" \in env.tracks
                                    THEN [lastWrite EXCEPT ![file] =
                                            [path |-> pathParts, value |-> value]]
                                    ELSE lastWrite
                    /\ delivered' = <<>>
                    /\ lastOp' = Op("write", file, pathParts, value, NoUuid, "skipped", <<>>)
               ELSE IF AssignmentThrows(t)
               THEN /\ UNCHANGED <<cache, hist>>
                    /\ delivered' = <<>>
                    /\ lastOp' = Op("write", file, pathParts, 0, NoUuid, "typeerror", <<>>)
               ELSE LET fileCache ==
                            [cache[i] EXCEPT
                                !.metadata = AssignAtPath(@, pathParts, Scalar(value)),
                                !.cyclesSinceLastUserInput = 0,
                                !.changed = TRUE]
                    IN /\ cache' = [cache EXCEPT ![i] = fileCache]
                       /\ sinceWrite' = IF "sinceWrite" \in env.tracks
                                        THEN [sinceWrite EXCEPT ![file] = 0]
                                        ELSE sinceWrite
                       /\ lastWrite' = IF "lastWrite" \in env.tracks
                                       THEN [lastWrite EXCEPT ![file] =
                                               [path |-> pathParts, value |-> value]]
                                       ELSE lastWrite
                       /\ burst' = IF "burst" \in env.tracks
                                   THEN [burst EXCEPT ![file] =
                                           [n |-> IF @.closed THEN 1
                                                  ELSE IF @.n < MaxBurst THEN @.n + 1
                                                  ELSE MaxBurst,
                                            closed |-> FALSE,
                                            raced |-> \/ ~@.closed /\ @.raced
                                                      \/ InFlight(file)]]
                                   ELSE burst
                       /\ delivered' = notifyListeners(fileCache, pathParts, uuid)
                       /\ lastOp' = Op("write", file, pathParts, value, uuid, "written", <<>>)
    /\ pending' = IF "pending" \in env.tracks /\ lastOp'.outcome = "written"
                  THEN [pending EXCEPT ![file] = TRUE]
                  ELSE pending
    /\ UNCHANGED <<env, store, jobs, unsubscribed>>
    /\ Recorded

\* an event for a document without an entry creates one
updateCacheOnFrontmatterUpdate_Creates(file, frontmatter) ==
    IF ~HasCache(file)
    THEN /\ cache' = Append(cache, [file |-> file,
                                    metadata |-> CopyWithoutPosition(frontmatter),
                                    listeners |-> <<>>,
                                    cyclesSinceLastUserInput |-> 0,
                                    changed |-> FALSE])
         /\ UNCHANGED lastWrite
         /\ delivered' = <<>>
         /\ lastOp' = Op("external", file, NoPath, 0, NoUuid, "nocache", <<>>)
    ELSE LET i == CacheIndex(file) IN
         IF RecentlyChanged(cache[i])
         THEN /\ UNCHANGED <<cache, lastWrite>>
              /\ delivered' = <<>>
              /\ lastOp' = Op("external", file, NoPath, 0, NoUuid, "suppressed", <<>>)
         ELSE LET fileCache == [cache[i] EXCEPT
                                    !.metadata = CopyWithoutPosition(frontmatter),
                                    !.cyclesSinceLastUserInput = 0]
              IN /\ cache' = [cache EXCEPT ![i] = fileCache]
                 /\ lastWrite' = [lastWrite EXCEPT ![file] = NoWrite]
                 /\ delivered' = notifyListeners(fileCache, NoPath, NoUuid)
                 /\ lastOp' = Op("external", file, NoPath, 0, NoUuid, "accepted", <<>>)

updateCacheOnFrontmatterUpdate(file, frontmatter) ==
    IF ~HasCache(file)
    THEN /\ UNCHANGED <<cache, lastWrite>>
         /\ delivered' = <<>>
         /\ lastOp' = Op("external", file, NoPath, 0, NoUuid, "nocache", <<>>)
    ELSE LET i == CacheIndex(file) IN
         IF RecentlyChanged(cache[i])
         THEN /\ UNCHANGED <<cache, lastWrite>>
              /\ delivered' = <<>>
              /\ lastOp' = Op("external", file, NoPath, 0, NoUuid, "suppressed", <<>>)
         ELSE LET fileCache == [cache[i] EXCEPT
                                    !.metadata = CopyWithoutPosition(frontmatter),
                                    !.cyclesSinceLastUserInput = 0]
              IN /\ cache' = [cache EXCEPT ![i] = fileCache]
                 /\ lastWrite' = [lastWrite EXCEPT ![file] = NoWrite]
                 /\ delivered' = notifyListeners(fileCache, NoPath, NoUuid)
                 /\ lastOp' = Op("external", file, NoPath, 0, NoUuid, "accepted", <<>>)

\* the document changes in the store and the host emits 'changed' with its
\* frontmatter (data equal to the stored one: the event of a change elsewhere in
\* the document, or the echo of a write-back)
ExternalChange(file, data) ==
    /\ store' = [store EXCEPT ![file] = data]
    /\ updateCacheOnFrontmatterUpdate(file, WithPosition(data))
    /\ UNCHANGED <<env, jobs, sinceWrite, burst, unsubscribed, pending>>
    /\ Recorded

\* the uuids a caller may name as the writer: none, or a subscriber of the document
Writers(file) ==
    {NoUuid} \cup
    (IF HasCache(file)
     THEN {getCacheForFile(file).listeners[i].uuid :
              i \in 1..Len(getCacheForFile(file).listeners)}
     ELSE {})

\* one step of a processFrontMatter call in flight, as the host decides
processFrontMatter(j, result) ==
    CASE result = "callback" -> FrontMatterCallback(j)
      [] result = "written" -> StoreWriteDone(j)
      [] result = "rejected" -> StoreFails(j)

Next ==
    \/ \E f \in env.docs, x \in env.fields, read \in env.reads :
            IF read = "ok"
            THEN register(f, x.path, x.uuid)
            ELSE registerReadFails(f, x.path, x.uuid)
    \/ \E f \in env.docs, u \in env.uuids : unregister(f, u)
    \/ update
    \/ \E j \in BagToSet(jobs), r \in env.results : processFrontMatter(j, r)
    \/ \E f \in env.docs, d \in env.updates : \E u \in Writers(f) : updateCache(d, f, u)
    \/ \E f \in env.docs, p \in env.paths, v \in env.values : \E u \in Writers(f) :
            updatePropertyInCache(v, p, f, u)
    \/ \E f \in env.docs : \E d \in env.external \cup {store[f]} : ExternalChange(f, d)

\* the cache and its listeners, under a store that rejects every write
Spec == InitIn(CacheEnv) /\ [][Next]_vars

\* the suppression window
SpecTiming == InitIn(TimingEnv) /\ [][Next]_vars

\* the write-back
SpecWriteBack == InitIn(WriteBackEnv) /\ [][Next]_vars

\* several documents
SpecDocs == InitIn(DocsEnv) /\ [][Next]_vars

\* registrations and unregistrations
SpecSubscription == InitIn(SubscriptionEnv) /\ [][Next]_vars

\* the signals of the fields
SpecSignal == InitIn(SignalEnv) /\ [][Next]_vars

\* the write-back and the removal of the entry
SpecTeardown == InitIn(TeardownEnv) /\ [][Next]_vars

\* the scheduler keeps ticking (window.setInterval) and the host settles every
\* processFrontMatter call: it invokes the callback and writes the file
SpecFair ==
    /\ InitIn(FairEnv)
    /\ [][Next]_vars
    /\ WF_vars(update)
    /\ WF_vars(\E j \in BagToSet(jobs) : processFrontMatter(j, "callback"))
    /\ WF_vars(\E j \in BagToSet(jobs) : processFrontMatter(j, "written"))

----------------------------------------------------------------------------
(* Properties *)

Entry(f) == getCacheForFile(f)

ReadCache(f, path) == traverseObjectByPath(path, Entry(f).metadata)

ListenerIndices(f) == 1..Len(Entry(f).listeners)

\* the deliveries of the last operation that went to subscriber u
DeliveriesTo(u) == {i \in 1..Len(delivered) : delivered[i].uuid = u}

\* the cache and the listeners are as they were and no callback ran
Dropped == cache' = cache /\ delivered' = <<>>

\* every listener of f, in order, was called with the value at its own path in
\* the frontmatter now stored, which is the metadata of the entry
AppliedTo(f) ==
    /\ Entry(f).metadata = store[f]
    /\ delivered = [i \in ListenerIndices(f) |->
                        Delivery(Entry(f).listeners[i].uuid,
                                 traverseObjectByPath(Entry(f).listeners[i].metadataPath,
                                                      store[f]))]

\* C1: after every local write call that returns on a document with an entry,
\* and after any ticks, registrations, write-back steps and suppressed external
\* changes that follow it, the cache holds the last written value at the path,
\* as long as the metadata was not replaced (accepted external change, wholesale
\* update) and the entry was not removed.
C1_NoLostLocalEdits ==
    \A f \in Files :
        lastWrite[f] # NoWrite =>
            /\ HasCache(f)
            /\ ReadCache(f, lastWrite[f].path) = Scalar(lastWrite[f].value)

\* a second write to the path, then a tick, then an external change carrying
\* another value at the path, which was suppressed
C1_Witness ==
    /\ lastOp.op = "external" /\ lastOp.outcome = "suppressed"
    /\ lastWrite["f1"] = [path |-> <<"a">>, value |-> 1]
    /\ sinceWrite["f1"] >= 1
    /\ Get(store["f1"], "a") = Scalar(2)
    /\ ReadCache("f1", <<"a">>) = Scalar(1)

\* C2: an external change is never accepted for an entry whose changed flag
\* is true.
C2_NoAcceptWhileChanged ==
    ~(/\ lastOp.op = "external"
      /\ lastOp.outcome = "accepted"
      /\ Entry(lastOp.file).changed)

\* C3: an external change for a document whose entry has
\* cyclesSinceLastUserInput < updateCycleThreshold leaves the cache (metadata,
\* counter, changed flag, listeners) as it was and calls no listener, whatever
\* the event carries.
C3_SuppressionLeavesStateUntouched ==
    [][\A f \in Files :
          (/\ lastOp'.op = "external" /\ lastOp'.file = f
           /\ HasCache(f)
           /\ Entry(f).cyclesSinceLastUserInput < updateCycleThreshold)
          => Dropped]_vars

\* a suppressed event that differs from the metadata only in a property other
\* than the one edited locally, with the local edit not yet written back
C3_Witness ==
    /\ lastOp.op = "external" /\ lastOp.outcome = "suppressed"
    /\ Entry("f1").changed
    /\ Len(Entry("f1").listeners) = 2
    /\ Get(store["f1"], "a") = ReadCache("f1", <<"a">>)
    /\ Get(store["f1"], "s") # ReadCache("f1", <<"s">>)

\* C4 as claimed: an external change that arrives after 0 to 5 ticks since the
\* last local write to the document is dropped.
C4_DroppedWithinFiveTicks ==
    [][\A f \in Files :
          (/\ lastOp'.op = "external" /\ lastOp'.file = f
           /\ sinceWrite[f] \in 0..updateCycleThreshold)
          => Dropped]_vars

\* C4 amended: an external change that arrives after 0 to 4 ticks since the last
\* value-changing local write to the document is dropped.
C4_DroppedWithinFourTicks ==
    [][\A f \in Files :
          (/\ lastOp'.op = "external" /\ lastOp'.file = f
           /\ sinceWrite[f] \in 0..(updateCycleThreshold - 1))
          => Dropped]_vars

\* an event dropped at the fourth tick after the write
C4_Witness ==
    /\ lastOp.op = "external" /\ lastOp.outcome = "suppressed"
    /\ sinceWrite["f1"] = updateCycleThreshold - 1
    /\ Entry("f1").cyclesSinceLastUserInput = updateCycleThreshold - 1
    /\ store["f1"] # Entry("f1").metadata

\* C5 as claimed: an external change for a document with an entry that arrives
\* after 6 or more ticks since the last local write is applied, whatever
\* happened in between.
C5_AppliedAfterSixTicks ==
    \A f \in Files :
        (/\ lastOp.op = "external" /\ lastOp.file = f
         /\ HasCache(f)
         /\ sinceWrite[f] >= updateCycleThreshold + 1)
        => AppliedTo(f)

\* C5 amended: an external change for a document with an entry whose
\* cyclesSinceLastUserInput has reached updateCycleThreshold (5 ticks or more
\* since the last value-changing local write, accepted external change,
\* wholesale update and the creation of the entry) is applied: the metadata
\* becomes the new data, the counter is 0 and every listener is called with the
\* value at its own path.
C5_AppliedAfterThreshold ==
    [][\A f \in Files :
          (/\ lastOp'.op = "external" /\ lastOp'.file = f
           /\ HasCache(f)
           /\ Entry(f).cyclesSinceLastUserInput >= updateCycleThreshold)
          => (AppliedTo(f) /\ Entry(f).cyclesSinceLastUserInput = 0)']_vars

\* an event applied six ticks after the last local write, two listeners called
C5_Witness ==
    /\ lastOp.op = "external" /\ lastOp.outcome = "accepted"
    /\ sinceWrite["f1"] >= updateCycleThreshold + 1
    /\ Len(Entry("f1").listeners) = 2
    /\ Len(delivered) = 2
    /\ AppliedTo("f1")

\* C6: a local write of the value the path already holds changes nothing in the
\* cache (metadata, changed flag, counter) and calls no listener.
C6_IdempotentWrite ==
    [][\A f \in Files :
          (/\ lastOp'.op = "write" /\ lastOp'.file = f
           /\ HasCache(f)
           /\ ReadCache(f, lastOp'.path) = Scalar(lastOp'.value))
          => Dropped]_vars

\* the second of two writes of the same value, a listener on the path, no
\* notification and, the first having been written back, no changed flag
C6_Witness ==
    /\ lastOp.op = "write" /\ lastOp.outcome = "skipped"
    /\ ~Entry("f1").changed
    /\ ReadCache("f1", lastOp.path) = Scalar(2)
    /\ \E i \in ListenerIndices("f1") : Entry("f1").listeners[i].metadataPath = lastOp.path
    /\ delivered = <<>>

\* C7: a local write to path p calls only listeners whose path equals p.
C7_ListenerIsolation ==
    lastOp.op = "write" =>
        \A d \in 1..Len(delivered) :
            \E i \in ListenerIndices(lastOp.file) :
                /\ Entry(lastOp.file).listeners[i].uuid = delivered[d].uuid
                /\ Entry(lastOp.file).listeners[i].metadataPath = lastOp.path

\* a write to [a,b] that called the listener on [a,b] and not the one on [a]
\* (or on [a,c])
C7_Witness ==
    /\ lastOp.op = "write" /\ lastOp.outcome = "written"
    /\ lastOp.path = <<"a", "b">>
    /\ Len(delivered) = 1
    /\ \E i \in ListenerIndices("f1") :
          /\ Entry("f1").listeners[i].metadataPath \in {<<"a">>, <<"a", "c">>}
          /\ DeliveriesTo(Entry("f1").listeners[i].uuid) = {}

\* C8: a local write at path p that changes the value and names u as the writer
\* calls, once and with the new value, every listener of the document whose
\* path is p and whose id is not u, calls no other listener, sets changed and
\* resets cyclesSinceLastUserInput.
C8_WriterExclusion ==
    (lastOp.op = "write" /\ lastOp.outcome = "written") =>
        LET e == Entry(lastOp.file) IN
        /\ e.changed
        /\ e.cyclesSinceLastUserInput = 0
        /\ \A i \in 1..Len(e.listeners) :
              IF e.listeners[i].metadataPath = lastOp.path /\ e.listeners[i].uuid # lastOp.uuid
              THEN /\ Cardinality(DeliveriesTo(e.listeners[i].uuid)) = 1
                   /\ \A d \in DeliveriesTo(e.listeners[i].uuid) :
                         delivered[d].value = Scalar(lastOp.value)
              ELSE DeliveriesTo(e.listeners[i].uuid) = {}
        /\ \A d \in 1..Len(delivered) :
              \E i \in 1..Len(e.listeners) : e.listeners[i].uuid = delivered[d].uuid

\* a write by u1 at [a,b] that called u2, registered on the same path
C8_Witness ==
    /\ lastOp.op = "write" /\ lastOp.outcome = "written"
    /\ lastOp.uuid = "u1"
    /\ \E i \in ListenerIndices("f1") :
          Entry("f1").listeners[i] = Listener(lastOp.path, "u1")
    /\ delivered = <<Delivery("u2", Scalar(lastOp.value))>>

\* the write-backs the last tick started for document f
StartedCount(f) ==
    Cardinality({i \in 1..Len(lastOp.started) : lastOp.started[i] = f})

\* the frontmatter the callback of the last step handed back to the store for f
HandedBack(f) ==
    {j.data : j \in {x \in BagToSet(jobs') :
                        /\ x.file = f /\ x.stage = "write"
                        /\ CopiesIn(x, jobs') > CopiesIn(x, jobs)}}

\* frontmatter fm carries every top-level property of metadata md
Carries(fm, md) ==
    \A k \in DOMAIN md : k \in DOMAIN fm /\ fm[k] = md[k]

\* C9 as claimed: after one or more value-changing local writes to a document
\* between two ticks, the second tick starts exactly one store write for the
\* document, and the data a write-back writes is the in-memory metadata.
C9_OneWriteOfTheMetadata ==
    [][\A f \in Files :
          /\ (/\ lastOp'.op = "update"
              /\ ~burst[f].closed /\ burst[f].n >= 1)
             => StartedCount(f)' = 1
          /\ (/\ lastOp'.op = "callback" /\ lastOp'.outcome = "live"
              /\ lastOp'.file = f)
             => HandedBack(f) = {Entry(f).metadata}]_vars

\* C10: a tick starts a write-back for an entry if and only if its changed flag
\* is true, and the write-back clears changed only after the store holds the
\* metadata of the entry.
C10_TickFlush ==
    /\ lastOp.op = "update" =>
          \A i \in 1..Len(cache) :
              StartedCount(cache[i].file) = (IF cache[i].changed THEN 1 ELSE 0)
    /\ (lastOp.op = "callback" /\ lastOp.outcome = "live") =>
          Carries(store[lastOp.file], Entry(lastOp.file).metadata)

\* C11: after the last listener of a document is unregistered the document has
\* no cache entry, and a register for a document without an entry creates one
\* whose metadata is the frontmatter the store holds at that moment, with
\* changed = false and cyclesSinceLastUserInput = 0.
C11_CacheTeardown ==
    [][\A f \in Files :
          /\ (/\ lastOp'.op = "unregister" /\ lastOp'.file = f
              /\ HasCache(f)
              /\ \A i \in ListenerIndices(f) : Entry(f).listeners[i].uuid = lastOp'.uuid)
             => ~HasCache(f)'
          /\ (/\ lastOp'.op = "register" /\ lastOp'.file = f
              /\ lastOp'.outcome # "readfailed"
              /\ ~HasCache(f))
             => (/\ HasCache(f)
                 /\ Entry(f).metadata = store[f]
                 /\ ~Entry(f).changed
                 /\ Entry(f).cyclesSinceLastUserInput = 0)']_vars

\* an entry created after the removal of one whose metadata, still held by a
\* write-back in flight, was different
C11_Witness ==
    /\ lastOp.op = "register" /\ lastOp.outcome = "created"
    /\ Entry("f1").metadata = store["f1"]
    /\ \E j \in BagToSet(jobs) :
          /\ j.file = "f1" /\ ~j.live /\ j.stage = "read"
          /\ j.data # Entry("f1").metadata

\* the path without its last part
ParentPath(pathParts) == SubSeq(pathParts, 1, Len(pathParts) - 1)

\* C12: a local write to a path whose parent does not exist in the metadata of
\* the entry throws the error naming the parent, leaves the cache as it was
\* (metadata, changed, cyclesSinceLastUserInput, listeners) and calls no
\* listener.
C12_MissingParent ==
    [][\A f \in Files :
          (/\ lastOp'.op = "write" /\ lastOp'.file = f
           /\ HasCache(f)
           /\ traverseObjectByPath(ParentPath(lastOp'.path), Entry(f).metadata) = Undefined)
          => (lastOp'.outcome = "error" /\ Dropped)]_vars

\* a write to [a,b] refused while the metadata has no property a, with a
\* listener on that path
C12_Witness ==
    /\ lastOp.op = "write" /\ lastOp.outcome = "error"
    /\ lastOp.path = <<"a", "b">>
    /\ Get(Entry("f1").metadata, "a") = Undefined
    /\ \E i \in ListenerIndices("f1") : Entry("f1").listeners[i].metadataPath = lastOp.path
    /\ delivered = <<>>

\* C13: after a write-back of an entry has failed, the changed flag of the entry
\* is true unless the store holds its metadata.
C13_AtLeastOnceWriteBack ==
    \A f \in Files :
        (lastOp.op = "failed" /\ lastOp.file = f /\ HasCache(f))
        => (Entry(f).changed \/ Carries(store[f], Entry(f).metadata))

\* C14: register sets the signal to the value at the path in the metadata of
\* the entry and appends one listener (path, id); an entry that exists is
\* reused with its metadata, changed flag and cyclesSinceLastUserInput as they
\* are, whatever the store holds; without an entry one is created from the
\* frontmatter of the store.
C14_RegisterSeedsAndReuses ==
    [][\A f \in Files :
          (/\ lastOp'.op = "register" /\ lastOp'.file = f
           /\ lastOp'.outcome # "readfailed") =>
             LET l == [metadataPath |-> lastOp'.path, uuid |-> lastOp'.uuid] IN
             IF HasCache(f)
             THEN /\ cache' = [cache EXCEPT ![CacheIndex(f)].listeners = Append(@, l)]
                  /\ delivered' = <<[uuid |-> l.uuid,
                                     value |-> ReadCache(f, l.metadataPath)]>>
             ELSE /\ cache' = Append(cache, [file |-> f,
                                             metadata |-> store[f],
                                             listeners |-> <<l>>,
                                             cyclesSinceLastUserInput |-> 0,
                                             changed |-> FALSE])
                  /\ delivered' = <<[uuid |-> l.uuid,
                                     value |-> traverseObjectByPath(l.metadataPath,
                                                                    store[f])]>>]_vars

\* a second field registered on [a,b] after an unsaved local edit there: its
\* signal gets the edited value, not the stored one
C14_Witness ==
    /\ lastOp.op = "register" /\ lastOp.outcome = "existing"
    /\ lastOp.path = <<"a", "b">>
    /\ Entry("f1").changed
    /\ Len(Entry("f1").listeners) = 2
    /\ delivered = <<[uuid |-> lastOp.uuid, value |-> Scalar(2)]>>
    /\ traverseObjectByPath(<<"a", "b">>, store["f1"]) = Scalar(1)

\* C16: an external change for a document without a cache entry creates no
\* entry, calls no listener and starts no store read or write.
C16_ExternalChangeWithoutCache ==
    [][\A f \in Files :
          (lastOp'.op = "external" /\ lastOp'.file = f /\ ~HasCache(f))
          => (Dropped /\ jobs' = jobs)]_vars

\* an event with new frontmatter while nothing is registered
C16_Witness ==
    /\ lastOp.op = "external" /\ lastOp.outcome = "nocache"
    /\ cache = <<>>
    /\ store["f1"] = TreeOf(Scalar(2), Undefined)
    /\ delivered = <<>>

\* C15: no local write, wholesale update or external change calls the callback
\* of a subscriber that was unregistered and has not registered again.
C15_NoNotificationAfterUnsubscribe ==
    \A d \in 1..Len(delivered) : delivered[d].uuid \notin unsubscribed

\* an accepted external change, after u1 was unregistered, that calls u2 alone
C15_Witness ==
    /\ lastOp.op = "external" /\ lastOp.outcome = "accepted"
    /\ "u1" \in unsubscribed
    /\ Len(Entry("f1").listeners) = 1
    /\ Len(delivered) = 1 /\ delivered[1].uuid = "u2"

\* C17: when the read of the store that register makes for a document without
\* an entry fails, no entry is created, no listener is recorded and no signal
\* is set.
C17_RegisterOnReadFailure ==
    [][(lastOp'.op = "register" /\ lastOp'.outcome = "readfailed") => Dropped]_vars

\* a failed register for f1 while f2 has its entry
C17_Witness ==
    /\ lastOp.op = "register" /\ lastOp.outcome = "readfailed"
    /\ lastOp.file = "f1"
    /\ ~HasCache("f1")
    /\ HasCache("f2")
    /\ lastOp.uuid \notin RegisteredUuids

\* C18: the changed flag of an entry is true if and only if a value-changing
\* local write to the entry happened since its creation and since the last
\* write-back that completed.
C18_DirtyFlag ==
    \A i \in 1..Len(cache) : cache[i].changed <=> pending[cache[i].file]

\* the operation resets the staleness counter of document f
Resets(op, f) ==
    /\ op.file = f
    /\ \/ op.op = "write" /\ op.outcome = "written"
       \/ op.op = "updateCache" /\ op.outcome = "updated"
       \/ op.op = "external" /\ op.outcome = "accepted"

\* C19 as claimed: cyclesSinceLastUserInput is 0 right after every local write
\* call that returns, a write of the value already held included.
C19_ZeroAfterEveryWrite ==
    (lastOp.op = "write" /\ lastOp.outcome \in {"written", "skipped"})
    => Entry(lastOp.file).cyclesSinceLastUserInput = 0

\* C19 amended: cyclesSinceLastUserInput is 0 right after every value-changing
\* local write, every wholesale update and every accepted external change of
\* the entry; no other operation on an existing entry lowers it, and a local
\* write of the value already held leaves it as it is.
C19_CounterResets ==
    [][\A f \in Files :
          HasCache(f)' =>
             /\ Resets(lastOp', f) => Entry(f)'.cyclesSinceLastUserInput = 0
             /\ (HasCache(f) /\ ~Resets(lastOp', f)) =>
                   Entry(f)'.cyclesSinceLastUserInput >= Entry(f).cyclesSinceLastUserInput
             /\ (lastOp'.op = "write" /\ lastOp'.file = f /\ lastOp'.outcome = "skipped") =>
                   Entry(f)'.cyclesSinceLastUserInput = Entry(f).cyclesSinceLastUserInput]_vars

\* a write of the value already held, three ticks after the last reset
C19_Witness ==
    /\ lastOp.op = "write" /\ lastOp.outcome = "skipped"
    /\ Entry("f1").cyclesSinceLastUserInput = 3

\* C20: a tick adds exactly 1 to cyclesSinceLastUserInput of every entry,
\* written back or not, and changes nothing else of the entries.
C20_CounterIncrements ==
    [][lastOp'.op = "update" =>
          /\ Len(cache') = Len(cache)
          /\ \A i \in 1..Len(cache) :
                cache'[i] = [cache[i] EXCEPT !.cyclesSinceLastUserInput = @ + 1]]_vars

\* a tick over two entries, one of them written back
C20_Witness ==
    /\ lastOp.op = "update"
    /\ Len(cache) = 2
    /\ Len(lastOp.started) = 1
    /\ \A i \in 1..2 : cache[i].cyclesSinceLastUserInput = 1
    /\ \E i \in 1..2 : cache[i].changed /\ ~cache[3 - i].changed

----------------------------------------------------------------------------
\* C21: the registry holds at most one cache entry per document path, after
\* any sequence of operations.
C21_UniqueEntryPerDocument ==
    \A i, j \in 1..Len(cache) : cache[i].file = cache[j].file => i = j

\* a second field registered on a document that had its entry
C21_Witness ==
    /\ lastOp.op = "register"
    /\ lastOp.outcome = "existing"
    /\ Len(cache) = 1
    /\ Len(cache[1].listeners) = 2

----------------------------------------------------------------------------
\* C22: unregister(document, id) removes exactly the listener registered under
\* id and leaves every other listener of the entry, in its original order, and
\* the entry's metadata, changed flag and counter as they were; the entry is
\* removed from the registry exactly when its listener collection became
\* empty; for a document without an entry, or an id that is not registered,
\* nothing changes; no listener is invoked.
C22_ExactListenerRemoval ==
    [][lastOp'.op = "unregister" =>
        LET f == lastOp'.file
            id == lastOp'.uuid
        IN /\ delivered' = <<>>
           /\ store' = store
           /\ IF \A i \in 1..Len(cache) : cache[i].file # f
              THEN cache' = cache
              ELSE LET i == CHOOSE k \in 1..Len(cache) : cache[k].file = f
                       others == SelectSeq(cache[i].listeners, LAMBDA x : x.uuid # id)
                   IN IF others = <<>>
                      THEN cache' = SelectSeq(cache, LAMBDA e : e.file # f)
                      ELSE cache' = [cache EXCEPT ![i].listeners = others]
           /\ (\A i \in 1..Len(cache) :
                  \A k \in 1..Len(cache[i].listeners) :
                      cache[i].listeners[k].uuid # id) => cache' = cache]_vars

\* the second of three listeners was removed from an entry with unsaved
\* metadata: the first and the third stay, in that order
C22_Witness ==
    /\ lastOp.op = "unregister"
    /\ lastOp.outcome = "kept"
    /\ lastOp.value = 1
    /\ lastOp.uuid = "u2"
    /\ HasCache("f1")
    /\ Entry("f1").changed
    /\ Entry("f1").cyclesSinceLastUserInput > 0
    /\ Len(Entry("f1").listeners) = 2
    /\ Entry("f1").listeners[1].uuid = "u3"
    /\ Entry("f1").listeners[2].uuid = "u1"

----------------------------------------------------------------------------
\* C23: updateCache(newMetadata, document, exceptId) on a document with an
\* entry replaces the entry's metadata by newMetadata, sets the counter to 0
\* and invokes every listener of the entry other than exceptId once, in order,
\* with the value at that listener's own path in newMetadata; an accepted
\* external change does the same with the frontmatter of the event and no
\* excluded listener; neither changes the changed flag nor the listeners.
C23_WholesaleUpdate ==
    [][\A f \in Files :
        (lastOp'.file = f /\ lastOp'.outcome \in {"updated", "accepted"}) =>
            LET called == SelectSeq(Entry(f).listeners,
                                    LAMBDA l : l.uuid # lastOp'.uuid)
            IN /\ HasCache(f) /\ HasCache(f)'
               /\ lastOp'.outcome = "accepted" =>
                     /\ lastOp'.uuid = NoUuid
                     /\ Entry(f)'.metadata = store'[f]
               /\ lastOp'.outcome = "updated" => Entry(f)'.metadata \in env.updates
               /\ Entry(f)'.cyclesSinceLastUserInput = 0
               /\ Entry(f)'.changed = Entry(f).changed
               /\ Entry(f)'.listeners = Entry(f).listeners
               /\ delivered' =
                     [i \in 1..Len(called) |->
                         Delivery(called[i].uuid,
                                  traverseObjectByPath(called[i].metadataPath,
                                                       Entry(f)'.metadata))]]_vars

\* a wholesale update by the first of three subscribers of an entry with
\* unsaved metadata: the other two are called, each with the value at its path
C23_Witness ==
    /\ lastOp.op = "updateCache"
    /\ lastOp.outcome = "updated"
    /\ lastOp.uuid = "u1"
    /\ Entry("f1").changed
    /\ Len(Entry("f1").listeners) = 3
    /\ Entry("f1").listeners[1].uuid = "u1"
    /\ Len(delivered) = 2
    /\ delivered[1].value # delivered[2].value
    /\ delivered[1].value # Undefined
    /\ delivered[2].value # Undefined

----------------------------------------------------------------------------
\* C24: a value-changing local write to an entry while a write-back of that
\* entry is in flight is followed, at the next tick, by the start of another
\* write-back of the entry (as long as the write has not reached the store).
C24_WriteBackAfterRace ==
    [][\A f \in Files :
        (/\ lastOp'.op = "update"
         /\ HasCache(f)
         /\ pending[f]
         /\ burst[f].raced /\ ~burst[f].closed) => StartedCount(f)' >= 1]_vars

----------------------------------------------------------------------------
\* C25: unregistering the last listener of a document while a write-back of
\* its entry is in flight removes the entry and cancels no write-back: every
\* call in flight stays in flight, the one whose callback has not run keeps
\* the metadata of the removed entry, its callback hands that metadata to the
\* store, and no tick starts a write-back for a document without an entry.
C25_WriteBackSurvivesTeardown ==
    [][\A f \in Files :
        /\ (lastOp'.op = "unregister" /\ lastOp'.outcome = "deleted" /\ lastOp'.file = f) =>
              /\ \A i \in 1..Len(cache') : cache'[i].file # f
              /\ BagCardinality(jobs') = BagCardinality(jobs)
              /\ \A j \in BagToSet(jobs) :
                    IF j.file = f /\ j.stage = "read" /\ j.live
                    THEN CopiesIn(Job(f, "read", FALSE, Entry(f).metadata), jobs')
                            >= CopiesIn(j, jobs)
                    ELSE CopiesIn(j, jobs') >= CopiesIn(j, jobs)
        /\ (lastOp'.op = "callback" /\ lastOp'.outcome = "removed" /\ lastOp'.file = f) =>
              /\ cache' = cache
              /\ \E j \in BagToSet(jobs) :
                    /\ j.file = f /\ j.stage = "read" /\ ~j.live
                    /\ HandedBack(f) = {ObjectAssign(store[f], j.data)}
        /\ lastOp'.op = "update" =>
              \A i \in 1..Len(lastOp'.started) :
                  \E k \in 1..Len(cache) : cache[k].file = lastOp'.started[i]]_vars

\* the write-back of an entry removed while the file was being read has
\* written the metadata of that entry to the store
C25_Witness ==
    /\ lastOp.op = "stored"
    /\ cache = <<>>
    /\ jobs = EmptyBag
    /\ store["f1"] = TreeOf(Scalar(2), Undefined)

----------------------------------------------------------------------------
\* C26: an operation addressed to one document leaves the entry of every
\* other document as it was (or absent) and invokes no listener of it; an
\* external change to a document whose own counter has reached the threshold
\* is accepted, whatever was written to the other documents.
C26_DocumentIsolation ==
    [][\A f \in Files :
        LET Of(c) == SelectSeq(c, LAMBDA e : e.file = f)
        IN /\ lastOp'.file \notin {f, NoFile} =>
                 /\ Of(cache') = Of(cache)
                 /\ \A i \in 1..Len(delivered') :
                       \A k \in 1..Len(cache) :
                           cache[k].file = f =>
                              \A n \in 1..Len(cache[k].listeners) :
                                  cache[k].listeners[n].uuid # delivered'[i].uuid
           /\ (/\ lastOp'.op = "external"
               /\ lastOp'.file = f
               /\ \E k \in 1..Len(cache) :
                     /\ cache[k].file = f
                     /\ cache[k].cyclesSinceLastUserInput >= updateCycleThreshold) =>
                 lastOp'.outcome = "accepted"]_vars

\* an external change to the second document is accepted while the first
\* document, written since the last tick, would suppress one
C26_Witness ==
    /\ lastOp.op = "external"
    /\ lastOp.file = "f2"
    /\ lastOp.outcome = "accepted"
    /\ Len(cache) = 2
    /\ cache[1].file = "f1"
    /\ cache[1].changed
    /\ cache[1].cyclesSinceLastUserInput = 0

----------------------------------------------------------------------------
\* C27: under fair ticks and a store that succeeds, every value-changing local
\* write to a document is eventually followed by a completed write-back of
\* that document, in every sequence of operations.
C27_PendingEditsReachStore ==
    \A f \in Files :
        (lastOp.op = "write" /\ lastOp.outcome = "written" /\ lastOp.file = f)
            ~> (lastOp.op = "stored" /\ lastOp.file = f)

----------------------------------------------------------------------------
\* C28: every cache entry has at least one listener, in every reachable state.
C28_NoEmptyEntries ==
    \A i \in 1..Len(cache) : Len(cache[i].listeners) >= 1

\* the last listener of an entry was unregistered and the entry went with it
C28_Witness ==
    /\ lastOp.op = "unregister"
    /\ lastOp.outcome = "deleted"
    /\ lastOp.value = 1
    /\ cache = <<>>
    /\ "u1" \notin RegisteredUuids
    /\ lastOp.uuid = "u1"

----------------------------------------------------------------------------
\* the signal of every listener of f holds the value at the listener's path in
\* the metadata of the entry
Coherent(f) ==
    HasCache(f) =>
        \A i \in 1..Len(Entry(f).listeners) :
            signal[Entry(f).listeners[i].uuid] =
                traverseObjectByPath(Entry(f).listeners[i].metadataPath,
                                     Entry(f).metadata)

IsProperPrefix(p, q) == Len(p) < Len(q) /\ SubSeq(q, 1, Len(p)) = p

\* the paths registered on f
RegisteredPaths(f) ==
    IF HasCache(f)
    THEN {Entry(f).listeners[i].metadataPath : i \in 1..Len(Entry(f).listeners)}
    ELSE {}

\* the path the step wrote in f, if it is a local write to f
WrittenPaths(f) ==
    IF lastOp'.op = "write" /\ lastOp'.file = f THEN {lastOp'.path} ELSE {}

\* the step names no excluded subscriber
NoneExcluded ==
    lastOp'.op \in {"write", "updateCache"} => lastOp'.uuid = NoUuid

\* C29 as claimed: when no registered path of a document is a proper prefix
\* of another registered path or of a written path, and no write names an
\* excluded subscriber, every completed operation leaves the value last
\* delivered to each registered listener equal to the value at its path in the
\* current metadata of the entry.
C29_SignalCoherence ==
    [][\A f \in Files :
        (/\ Coherent(f)
         /\ NoneExcluded
         /\ \A p \in RegisteredPaths(f)' :
               \A q \in RegisteredPaths(f)' \cup WrittenPaths(f) :
                   ~IsProperPrefix(p, q)) => Coherent(f)']_vars

\* C29, amended: moreover no written path is a proper prefix of a registered
\* path.
C29_SignalCoherenceDisjointPaths ==
    [][\A f \in Files :
        (/\ Coherent(f)
         /\ NoneExcluded
         /\ \A p \in RegisteredPaths(f)' :
               /\ \A q \in RegisteredPaths(f)' \cup WrittenPaths(f) :
                     ~IsProperPrefix(p, q)
               /\ \A q \in WrittenPaths(f) : ~IsProperPrefix(q, p)) => Coherent(f)']_vars

\* a local write by nobody to a.b with three listeners: the two on a.b were
\* called, the one on a.c was not, and every signal holds the current value
C29_Witness ==
    /\ lastOp.op = "write"
    /\ lastOp.outcome = "written"
    /\ lastOp.uuid = NoUuid
    /\ lastOp.path = <<"a", "b">>
    /\ Len(Entry("f1").listeners) = 3
    /\ Len(delivered) = 2
    /\ Coherent("f1")
    /\ signal["u2"] # signal["u1"]

----------------------------------------------------------------------------
\* C30: register creates an entry with counter 0 and changed false, so an
\* external change that arrives before 5 ticks have run since the creation of
\* the entry is dropped although no local write has occurred, and one that
\* arrives once 5 ticks have run is applied (no local write, wholesale update
\* or accepted external change having reset the counter in between).
C30_FreshEntryWindow ==
    [][\A f \in Files :
        /\ (lastOp'.op = "register" /\ lastOp'.outcome = "created" /\ lastOp'.file = f) =>
              /\ Entry(f)'.cyclesSinceLastUserInput = 0
              /\ ~Entry(f)'.changed
        /\ (/\ lastOp'.op = "external"
            /\ lastOp'.file = f
            /\ HasCache(f)
            /\ sinceCreation[f] >= 0) =>
              /\ ~Entry(f).changed
              /\ IF sinceCreation[f] < updateCycleThreshold
                 THEN lastOp'.outcome = "suppressed" /\ Dropped
                 ELSE lastOp'.outcome = "accepted" /\ AppliedTo(f)']_vars

\* an external change of the stored value, four ticks after the creation of an
\* entry that nothing wrote to, was dropped: the entry keeps the old value
C30_Witness ==
    /\ lastOp.op = "external"
    /\ lastOp.outcome = "suppressed"
    /\ sinceCreation["f1"] = updateCycleThreshold - 1
    /\ ~Entry("f1").changed
    /\ store["f1"] = TreeOf(Scalar(2), Undefined)
    /\ Entry("f1").metadata = TreeOf(Scalar(1), Undefined)

----------------------------------------------------------------------------
\* C31: a local write or a wholesale update addressed to a document without a
\* cache entry returns without an error and changes nothing: no entry is
\* created, no listener is invoked, no write-back is started and the store is
\* left alone; and a tick starts no write-back for a document without an entry.
C31_WriteWithoutCacheEntry ==
    [][\A f \in Files :
        (\A i \in 1..Len(cache) : cache[i].file # f) =>
            /\ (lastOp'.op \in {"write", "updateCache"} /\ lastOp'.file = f) =>
                  /\ lastOp'.outcome = "nocache"
                  /\ cache' = cache
                  /\ delivered' = <<>>
                  /\ jobs' = jobs
                  /\ store' = store
            /\ lastOp'.op = "update" =>
                  \A i \in 1..Len(lastOp'.started) : lastOp'.started[i] # f]_vars

\* a local write to f2, which has no entry, while f1 has one with unsaved
\* metadata: the registry still holds the entry of f1 alone
C31_Witness ==
    /\ lastOp.op = "write"
    /\ lastOp.outcome = "nocache"
    /\ lastOp.file = "f2"
    /\ Len(cache) = 1
    /\ cache[1].file = "f1"
    /\ cache[1].changed
    /\ delivered = <<>>
    /\ jobs = EmptyBag

====
